---- MODULE Spec2Model ----
(***************************************************************************)
(* Model of the Tokyo Dome event parser (src/main.py): name normalisation, *)
(* the difflib similarity ratio, fuzzy deduplication, the month-table      *)
(* lookup and row parser, the SQL upsert path and the command-line driver. *)
(*                                                                         *)
(* Text is a sequence of one-character strings.  A character outside      *)
(* ASCII is written as an ASCII token that stands for that single          *)
(* character:                                                              *)
(*   "FW_A" U+FF21 fullwidth A      "IDSP" U+3000 ideographic space        *)
(*   "LQ"   U+300C left corner br.  "RQ"   U+300D right corner bracket     *)
(*   "FI"   U+FB01 ligature fi      "FW_0" U+FF10 fullwidth digit zero     *)
(*   "KAI" "EN" "SHI"  the characters of kaien (KAI EN) and kaishi         *)
(*   (KAI SHI); "NEN" "GATSU" the year and month characters; "DO" the      *)
(*   weekday character; "SLASH_FW" U+FF0F; "KO" "NN" "SA" "CHO" "TO",      *)
(*   "SU" "PO" "CHO" "TSU", "SO" "NO" "TA", "YA" "KYU" the characters of   *)
(*   the four category prefixes.  Markup delimiters ("<p>", "<!--", ...)   *)
(*   are written as one token each; no pattern contains any of them.       *)
(***************************************************************************)
EXTENDS Integers, Sequences, FiniteSets, TLC

VARIABLES
    simLeft, simRight,                 \* the two strings given to name_similarity
    simResult, simReverse,             \* ratio(left, right) and ratio(right, left)
    events, grouped, dedupOut,         \* deduplicate_events: input, groups, result
    dedupPc,
    dedupAgain,                        \* deduplicate_events applied to its own result
    locDoc, locYear, locMonth,         \* find_month_table arguments
    located,                           \* and its result (position of the table)
    doc, nowYear, nowMonth,            \* get_events: the page and datetime.now()
    monthNo,                           \* 1: current month, 2: next month
    gPc,                               \* position inside get_events / parse_events
    rows, rowsRead,                    \* rows of the current table read so far
    raw,                               \* the list events of parse_events
    lastParse,                         \* what the last parse_events call returned
    allEvents,                         \* the list events of get_events
    gResult,                           \* what get_events returned
    flagSave, flagCleanup,             \* args.save, args.cleanup_fuzzy
    mPc,                               \* position inside main and its callees
    run,                               \* number of the process run (1, 2, ...)
    evs,                               \* the list events of main
    db, dbIndex,                       \* rows of the D1 table events in rowid order;
                                       \* whether idx_events_date_name exists
    exitCode,                          \* exit status of the run, Pending while running
    steps,                             \* the stages of the run started so far
    msgs,                              \* the warnings and errors printed so far
    calls,                             \* the external calls made and their outcomes
    runEvs, dbAfterSave                \* per finished run: the events it saved and
                                       \* the table right after its upsert

simVars == <<simLeft, simRight, simResult, simReverse>>
dedupVars == <<events, grouped, dedupOut, dedupPc, dedupAgain>>
locVars == <<locDoc, locYear, locMonth, located>>
parseVars == <<doc, nowYear, nowMonth, monthNo, gPc, rows, rowsRead, raw, lastParse,
               allEvents, gResult>>
mainVars == <<flagSave, flagCleanup, mPc, run, evs, db, dbIndex, exitCode, steps, msgs,
              calls, runEvs, dbAfterSave>>
vars == <<simLeft, simRight, simResult, simReverse, events, grouped, dedupOut, dedupPc,
          dedupAgain,
          locDoc, locYear, locMonth, located,
          doc, nowYear, nowMonth, monthNo, gPc, rows, rowsRead, raw, lastParse,
          allEvents, gResult,
          flagSave, flagCleanup, mPc, run, evs, db, dbIndex, exitCode, steps, msgs,
          calls, runEvs, dbAfterSave>>

(***************************************************************************)
(* Bounds                                                                  *)
(***************************************************************************)
MaxSimLen == 4          \* longest string enumerated for name_similarity
MaxEvents == 3          \* longest input list of deduplicate_events
MaxDocItems == 3        \* most headers and tables in a document
MaxRows == 3            \* most table rows read during one get_events call
MaxRuns == 2            \* most consecutive runs of the program on one database

(***************************************************************************)
(* Generic sequence helpers                                                *)
(***************************************************************************)
RECURSIVE Concat(_)
Concat(ss) == IF ss = <<>> THEN <<>> ELSE Head(ss) \o Concat(Tail(ss))

\* s[from..to-1] with 1-based half-open bounds
Slice(s, from, to) == [i \in 1..(to - from) |-> s[from + i - 1]]

\* x in s, for Python's substring operator  x in s
IsSubstring(x, s) ==
    \E i \in 1..(Len(s) - Len(x) + 1) : Slice(s, i, i + Len(x)) = x

(***************************************************************************)
(* normalize_event_name                                                    *)
(***************************************************************************)
\* unicodedata.normalize("NFKC", .) on one character of the modelled alphabet
NFKCChar(c) ==
    CASE c = "FW_A" -> <<"A">>
      [] c = "IDSP" -> <<" ">>
      [] c = "FI"   -> <<"f", "i">>
      [] c = "FW_0" -> <<"0">>
      [] c = "SLASH_FW" -> <<"/">>
      [] OTHER      -> <<c>>

NFKC(s) == Concat([i \in 1..Len(s) |-> NFKCChar(s[i])])

\* .replace(LQ, '"').replace(RQ, '"')
ReplaceQuotes(s) ==
    [i \in 1..Len(s) |-> IF s[i] \in {"LQ", "RQ"} THEN "\"" ELSE s[i]]

\* the class \s of the re module, and the characters str.strip() removes
IsSpace(c) == c \in {" ", "IDSP", "TAB"}

RECURSIVE LStrip(_)
LStrip(s) == IF s # <<>> /\ IsSpace(Head(s)) THEN LStrip(Tail(s)) ELSE s

RECURSIVE RStrip(_)
RStrip(s) ==
    IF s # <<>> /\ IsSpace(s[Len(s)]) THEN RStrip(SubSeq(s, 1, Len(s) - 1)) ELSE s

Strip(s) == RStrip(LStrip(s))

\* re.sub(r"\s+", " ", s)
RECURSIVE CollapseWs(_)
CollapseWs(s) ==
    IF s = <<>> THEN <<>>
    ELSE IF IsSpace(Head(s)) THEN <<" ">> \o CollapseWs(LStrip(Tail(s)))
    ELSE <<Head(s)>> \o CollapseWs(Tail(s))

\* str.lower() on one character
LowerChar(c) ==
    CASE c = "A" -> "a"
      [] c = "B" -> "b"
      [] c = "C" -> "c"
      [] c = "D" -> "d"
      [] c = "E" -> "e"
      [] OTHER   -> c

Lower(s) == [i \in 1..Len(s) |-> LowerChar(s[i])]

normalize_event_name(name) ==
    Lower(Strip(CollapseWs(ReplaceQuotes(NFKC(name)))))

(***************************************************************************)
(* name_similarity: difflib.SequenceMatcher(None, left, right).ratio()     *)
(* Windows are half-open and 1-based: a[alo..ahi-1], b[blo..bhi-1].        *)
(* (The autojunk heuristic only acts on a second argument of 200 or more   *)
(* characters and there is no junk predicate.)                             *)
(***************************************************************************)
\* a[i..i+k-1] = b[j..j+k-1]
BlockMatches(a, b, i, j, k) == \A d \in 0..(k - 1) : a[i + d] = b[j + d]

\* find_longest_match: the longest block inside the window; of the longest,
\* the one starting earliest in a, and of those the one starting earliest in b
find_longest_match(a, b, alo, ahi, blo, bhi) ==
    LET Blocks == {t \in (alo..(ahi - 1)) \X (blo..(bhi - 1)) \X (1..(ahi - alo)) :
                      /\ t[1] + t[3] <= ahi
                      /\ t[2] + t[3] <= bhi
                      /\ BlockMatches(a, b, t[1], t[2], t[3])}
    IN IF Blocks = {} THEN <<alo, blo, 0>>
       ELSE CHOOSE t \in Blocks :
              \A u \in Blocks :
                 \/ u[3] < t[3]
                 \/ u[3] = t[3] /\ t[1] < u[1]
                 \/ u[3] = t[3] /\ t[1] = u[1] /\ t[2] <= u[2]

\* get_matching_blocks, summed: total size of the blocks of the recursive
\* alignment (longest block, then the remainders left and right of it)
RECURSIVE MatchTotal(_, _, _, _, _, _)
MatchTotal(a, b, alo, ahi, blo, bhi) ==
    LET m == find_longest_match(a, b, alo, ahi, blo, bhi)
        i == m[1]
        j == m[2]
        k == m[3]
    IN IF k = 0 THEN 0
       ELSE k + (IF alo < i /\ blo < j
                   THEN MatchTotal(a, b, alo, i, blo, j) ELSE 0)
              + (IF i + k < ahi /\ j + k < bhi
                   THEN MatchTotal(a, b, i + k, ahi, j + k, bhi) ELSE 0)

\* name_similarity with the length of the first string alone as denominator
name_similarity_FirstLen(left, right) ==
    LET T == 2 * Len(left)
    IN IF Len(left) + Len(right) = 0 THEN <<1, 1>>
       ELSE <<2 * MatchTotal(left, right, 1, Len(left) + 1, 1, Len(right) + 1), T>>

\* ratio() as the exact fraction <<numerator, denominator>>; _calculate_ratio
\* returns 1.0 when both strings are empty
name_similarity(left, right) ==
    LET T == Len(left) + Len(right)
    IN IF T = 0 THEN <<1, 1>>
       ELSE <<2 * MatchTotal(left, right, 1, Len(left) + 1, 1, Len(right) + 1), T>>

\* EVENT_NAME_SIMILARITY_THRESHOLD = 0.80 as the fraction 4/5
ThresholdNum == 4
ThresholdDen == 5

\* is_same_event_name with a threshold of 0.75
is_same_event_name_Loose(left, right) ==
    LET r == name_similarity(left, right)
    IN r[1] * 4 >= 3 * r[2]

\* name_similarity(left, right) >= EVENT_NAME_SIMILARITY_THRESHOLD
is_same_event_name(left, right) ==
    LET r == name_similarity(left, right)
    IN r[1] * ThresholdDen >= ThresholdNum * r[2]

(***************************************************************************)
(* prefer_event_name and deduplicate_events                                *)
(***************************************************************************)
\* prefer_event_name comparing the raw names instead of the normalized ones
prefer_event_name_RawLen(current, candidate) ==
    IF Len(candidate.name) > Len(current.name) THEN candidate ELSE current

\* the event whose normalized name is strictly longer, else the current one
prefer_event_name(current, candidate) ==
    IF Len(normalize_event_name(candidate.name)) > Len(normalize_event_name(current.name))
    THEN candidate
    ELSE current

\* the grouping key reduced to the date
EventKey_DateOnly(event) == <<event.date, <<>>>>

EventKey(event) == <<event.date, event.start_time>>

\* position of the key in the insertion-ordered dict grouped_events, 0 if absent
KeyIndex(g, key) ==
    IF \E i \in 1..Len(g) : g[i].key = key
    THEN CHOOSE i \in 1..Len(g) : g[i].key = key
    ELSE 0

\* the inner for loop: the first candidate judged the same event, 0 for None
MatchIndex(candidates, normalized_name) ==
    LET M == {i \in 1..Len(candidates) :
                 is_same_event_name(candidates[i].norm, normalized_name)}
    IN IF M = {} THEN 0 ELSE CHOOSE i \in M : \A j \in M : i <= j

\* one iteration with a new candidate put in front of its key's list
DedupAdd_Prepend(g, event) ==
    LET key == EventKey(event)
        normalized_name == normalize_event_name(event.name)
        ki == KeyIndex(g, key)
        g1 == IF ki = 0 THEN Append(g, [key |-> key, cands |-> <<>>]) ELSE g
        k == IF ki = 0 THEN Len(g1) ELSE ki
        candidates == g1[k].cands
        match_index == MatchIndex(candidates, normalized_name)
    IN IF match_index = 0
       THEN [g1 EXCEPT ![k].cands =
                <<[event |-> event, norm |-> normalized_name]>> \o candidates]
       ELSE LET preferred_event ==
                    prefer_event_name(candidates[match_index].event, event)
            IN [g1 EXCEPT ![k].cands[match_index] =
                   [event |-> preferred_event,
                    norm |-> normalize_event_name(preferred_event.name)]]

\* one iteration of the outer for loop of deduplicate_events
DedupAdd(g, event) ==
    LET key == EventKey(event)
        normalized_name == normalize_event_name(event.name)
        ki == KeyIndex(g, key)
        g1 == IF ki = 0 THEN Append(g, [key |-> key, cands |-> <<>>]) ELSE g
        k == IF ki = 0 THEN Len(g1) ELSE ki
        candidates == g1[k].cands
        match_index == MatchIndex(candidates, normalized_name)
    IN IF match_index = 0
       THEN [g1 EXCEPT ![k].cands =
                Append(candidates, [event |-> event, norm |-> normalized_name])]
       ELSE LET preferred_event ==
                    prefer_event_name(candidates[match_index].event, event)
            IN [g1 EXCEPT ![k].cands[match_index] =
                   [event |-> preferred_event,
                    norm |-> normalize_event_name(preferred_event.name)]]

\* the return statement: groups flattened in key insertion order
RECURSIVE FlattenGroups(_)
FlattenGroups(g) ==
    IF g = <<>> THEN <<>>
    ELSE [i \in 1..Len(Head(g).cands) |-> Head(g).cands[i].event]
         \o FlattenGroups(Tail(g))

RECURSIVE DedupFold(_, _)
DedupFold(g, rest) ==
    IF rest = <<>> THEN g ELSE DedupFold(DedupAdd(g, Head(rest)), Tail(rest))

deduplicate_events(event_list) == FlattenGroups(DedupFold(<<>>, event_list))

(***************************************************************************)
(* Number formatting and parsing                                           *)
(***************************************************************************)
DigitChars == <<"0", "1", "2", "3", "4", "5", "6", "7", "8", "9">>

\* the class \d of the re module on str: every Unicode decimal digit
IsDigit(c) == c \in {"0", "1", "2", "3", "4", "5", "6", "7", "8", "9", "FW_0"}

\* the value int() gives one digit character
DigitVal(c) ==
    IF c = "FW_0" THEN 0 ELSE CHOOSE v \in 0..9 : DigitChars[v + 1] = c

\* int(s) for a string of digits
RECURSIVE ParseInt(_)
ParseInt(s) ==
    IF s = <<>> THEN 0 ELSE 10 * ParseInt(SubSeq(s, 1, Len(s) - 1)) + DigitVal(s[Len(s)])

\* f"{n}" for n >= 0
RECURSIVE FormatInt(_)
FormatInt(n) ==
    IF n < 10 THEN <<DigitChars[n + 1]>>
    ELSE FormatInt(n \div 10) \o <<DigitChars[(n % 10) + 1]>>

\* f"{n:02d}" for n >= 0
FormatInt02(n) == IF n < 10 THEN <<"0">> \o FormatInt(n) ELSE FormatInt(n)

(***************************************************************************)
(* extract_start_time                                                      *)
(***************************************************************************)
CharAt(text, p) == IF p >= 1 /\ p <= Len(text) THEN text[p] ELSE "EOS"

HasLiteralAt(text, p, lit) ==
    /\ p + Len(lit) - 1 <= Len(text)
    /\ \A d \in 1..Len(lit) : text[p + d - 1] = lit[d]

\* the position after the whitespace run that starts at p (greedy \s*)
RECURSIVE SkipSpaces(_, _)
SkipSpaces(text, p) ==
    IF IsSpace(CharAt(text, p)) THEN SkipSpaces(text, p + 1) ELSE p

\* the group (\d{1,2}:\d{2}) matched at p, <<>> when it does not match there
TimeGroupAt(text, p) ==
    IF /\ IsDigit(CharAt(text, p))
       /\ IsDigit(CharAt(text, p + 1))
       /\ CharAt(text, p + 2) = ":"
       /\ IsDigit(CharAt(text, p + 3))
       /\ IsDigit(CharAt(text, p + 4))
    THEN Slice(text, p, p + 5)
    ELSE IF /\ IsDigit(CharAt(text, p))
            /\ CharAt(text, p + 1) = ":"
            /\ IsDigit(CharAt(text, p + 2))
            /\ IsDigit(CharAt(text, p + 3))
    THEN Slice(text, p, p + 4)
    ELSE <<>>

\* the five patterns, in list order.  words: the alternatives of the leading
\* literal; timeWord: whether  \s+time\s+  follows it (else \s*)
StartWords ==
    {<<"S", "t", "a", "r", "t">>, <<"s", "t", "a", "r", "t">>,
     <<"S", "t", "a", "r", "t", "s">>, <<"s", "t", "a", "r", "t", "s">>}

patterns ==
    << [words |-> {<<"KAI", "EN">>}, timeWord |-> FALSE],
       [words |-> {<<"KAI", "SHI">>}, timeWord |-> FALSE],
       [words |-> StartWords, timeWord |-> TRUE],
       [words |-> StartWords, timeWord |-> FALSE],
       [words |-> {<<"SLASH_FW", "KAI", "EN">>}, timeWord |-> FALSE] >>

\* what follows the leading word: the time group, after  \s*  or  \s+time\s+
AfterWord(pattern, text, p) ==
    IF pattern.timeWord
    THEN LET q == SkipSpaces(text, p)
             r == SkipSpaces(text, q + 4)
         IN IF q > p /\ HasLiteralAt(text, q, <<"t", "i", "m", "e">>) /\ r > q + 4
            THEN TimeGroupAt(text, r)
            ELSE <<>>
    ELSE TimeGroupAt(text, SkipSpaces(text, p))

\* the groups the pattern captures when matched at position p
GroupsAt(pattern, text, p) ==
    {AfterWord(pattern, text, p + Len(w)) :
        w \in {x \in pattern.words : HasLiteralAt(text, p, x)}} \ {<<>>}

\* re.search(pattern, text).group(1): the leftmost match, <<>> for no match
SearchGroup(pattern, text) ==
    LET Hits == {p \in 1..Len(text) : GroupsAt(pattern, text, p) # {}}
    IN IF Hits = {} THEN <<>>
       ELSE LET first == CHOOSE p \in Hits : \A q \in Hits : p <= q
            IN CHOOSE g \in GroupsAt(pattern, text, first) : TRUE

\* f"{int(parts[0]):02d}:{parts[1]}" for time_str.split(":")
FormatTime(time_str) ==
    LET colon == CHOOSE p \in 1..Len(time_str) : time_str[p] = ":"
    IN FormatInt02(ParseInt(Slice(time_str, 1, colon)))
       \o <<":">> \o Slice(time_str, colon + 1, Len(time_str) + 1)

None == <<"None">>

\* extract_start_time returning the captured group without padding the hour
extract_start_time_Unpadded(text) ==
    LET Matching == {n \in 1..Len(patterns) : SearchGroup(patterns[n], text) # <<>>}
    IN IF Matching = {} THEN None
       ELSE LET n == CHOOSE m \in Matching : \A k \in Matching : m <= k
            IN SearchGroup(patterns[n], text)

\* the first pattern of the list that matches decides; None when none does
extract_start_time(text) ==
    LET Matching == {n \in 1..Len(patterns) : SearchGroup(patterns[n], text) # <<>>}
    IN IF Matching = {} THEN None
       ELSE LET n == CHOOSE m \in Matching : \A k \in Matching : m <= k
            IN FormatTime(SearchGroup(patterns[n], text))

(***************************************************************************)
(* The parsed page.  A document is the sequence, in document order, of its *)
(* month headers (the p elements of class c-ttl-set-calender) and tables.  *)
(* An element's content is a sequence of nodes [type, s]: a text node, a   *)
(* comment, or a child element (span, a) holding one string.               *)
(***************************************************************************)
\* element.get_text(strip=True): the strings of the text nodes and child
\* elements, each stripped, the empty ones dropped, joined; comments are not
\* part of the text
RECURSIVE get_text(_)
get_text(nodes) ==
    IF nodes = <<>> THEN <<>>
    ELSE (IF Head(nodes).type = "comment" THEN <<>> ELSE Strip(Head(nodes).s))
         \o get_text(Tail(nodes))

\* the serialization of one node inside str(header)
NodeHtml(node) ==
    CASE node.type = "comment" -> <<"<!--">> \o node.s \o <<"-->">>
      [] node.type = "span"    -> <<"<span>">> \o node.s \o <<"</span>">>
      [] node.type = "a"       -> <<"<a>">> \o node.s \o <<"</a>">>
      [] OTHER                 -> node.s

\* str(header)
HeaderHtml(header) ==
    <<"<p>">> \o Concat([i \in 1..Len(header.nodes) |-> NodeHtml(header.nodes[i])])
    \o <<"</p>">>

MONTH_NAMES ==
    << <<"J", "a", "n", "u", "a", "r", "y">>,
       <<"F", "e", "b", "r", "u", "a", "r", "y">>,
       <<"M", "a", "r", "c", "h">>,
       <<"A", "p", "r", "i", "l">>,
       <<"M", "a", "y">>,
       <<"J", "u", "n", "e">>,
       <<"J", "u", "l", "y">>,
       <<"A", "u", "g", "u", "s", "t">>,
       <<"S", "e", "p", "t", "e", "m", "b", "e", "r">>,
       <<"O", "c", "t", "o", "b", "e", "r">>,
       <<"N", "o", "v", "e", "m", "b", "e", "r">>,
       <<"D", "e", "c", "e", "m", "b", "e", "r">> >>

\* f"{year}NEN{month:02d}GATSU"
japanese_pattern(year, month) ==
    FormatInt(year) \o <<"NEN">> \o FormatInt02(month) \o <<"GATSU">>

\* f"{MONTH_NAMES[month - 1]} {year}"
english_pattern(year, month) == MONTH_NAMES[month] \o <<" ">> \o FormatInt(year)

\* the condition of the if statement inside the header loop
HeaderMatches(header, year, month) ==
    \/ IsSubstring(japanese_pattern(year, month), HeaderHtml(header))
    \/ IsSubstring(japanese_pattern(year, month), get_text(header.nodes))
    \/ IsSubstring(english_pattern(year, month), get_text(header.nodes))

\* find_next with the first table of the document, whatever its position
find_next_table_FirstInDocument(document, i) ==
    LET Tables == {j \in 1..Len(document) : document[j].kind = "table"}
    IN IF Tables = {} THEN 0 ELSE CHOOSE j \in Tables : \A k \in Tables : j <= k

\* header.find_next("table"): the first table after position i, 0 for None
find_next_table(document, i) ==
    LET Tables == {j \in (i + 1)..Len(document) : document[j].kind = "table"}
    IN IF Tables = {} THEN 0 ELSE CHOOSE j \in Tables : \A k \in Tables : j <= k

\* the table of the first matching header that has a table after it; 0 for None
find_month_table(document, year, month) ==
    LET Found == {i \in 1..Len(document) :
                     /\ document[i].kind = "header"
                     /\ HeaderMatches(document[i], year, month)
                     /\ find_next_table(document, i) # 0}
    IN IF Found = {} THEN 0
       ELSE find_next_table(document, CHOOSE i \in Found : \A k \in Found : i <= k)

(***************************************************************************)
(* extract_event_name and the body of the row loop of parse_events         *)
(***************************************************************************)
prefixes ==
    << <<"KO", "NN", "SA", "CHO", "TO">>,
       <<"SU", "PO", "CHO", "TSU">>,
       <<"SO", "NO", "TA">>,
       <<"YA", "KYU">> >>

\* the for loop over prefixes: the first prefix the text starts with is cut off
StripPrefix(text) ==
    LET Starts == {n \in 1..Len(prefixes) : HasLiteralAt(text, 1, prefixes[n])}
    IN IF Starts = {} THEN text
       ELSE LET n == CHOOSE m \in Starts : \A k \in Starts : m <= k
            IN Strip(Slice(text, Len(prefixes[n]) + 1, Len(text) + 1))

\* the name, <<>> standing for both the empty string and None
extract_event_name(cell) ==
    LET Links == {i \in 1..Len(cell) : cell[i].type = "a"}
    IN IF Links # {}
       THEN Strip(cell[CHOOSE i \in Links : \A k \in Links : i <= k].s)
       ELSE StripPrefix(get_text(cell))

\* re.match(r"(\d{1,2})", date_cell).group(1), <<>> for no match
DayDigits(date_cell) ==
    IF IsDigit(CharAt(date_cell, 1))
    THEN IF IsDigit(CharAt(date_cell, 2)) THEN Slice(date_cell, 1, 3)
         ELSE Slice(date_cell, 1, 2)
    ELSE <<>>

\* extract_start_time(cell_text) or "00:00"
StartTimeOf(cell_text) ==
    IF extract_start_time(cell_text) = None
    THEN <<"0", "0", ":", "0", "0">>
    ELSE extract_start_time(cell_text)

\* one iteration of  for row in rows : the events appended, none or one
RowEvents(row, year, month) ==
    IF Len(row) < 2 THEN <<>>
    ELSE LET date_cell == get_text(row[1])
             cell_text == get_text(row[2])
             event_name == extract_event_name(row[2])
         IN IF DayDigits(date_cell) = <<>> THEN <<>>
            ELSE IF cell_text = <<>> THEN <<>>
            ELSE IF event_name = <<>> THEN <<>>
            ELSE << [date |-> FormatInt(year) \o <<"-">> \o FormatInt02(month)
                                \o <<"-">> \o FormatInt02(ParseInt(DayDigits(date_cell))),
                     name |-> event_name,
                     start_time |-> StartTimeOf(cell_text)] >>

get_next_month(year, month) ==
    IF month = 12 THEN <<year + 1, 1>> ELSE <<year, month + 1>>

(***************************************************************************)
(* Specification SpecSim: name_similarity on every pair of short strings   *)
(***************************************************************************)
SimAlphabet == {"a", "b"}
SimStrings == UNION {[1..n -> SimAlphabet] : n \in 0..MaxSimLen}

NoResult == <<0, 0>>

SimIdle ==
    /\ simLeft = <<>>
    /\ simRight = <<>>
    /\ simResult = NoResult
    /\ simReverse = NoResult

DedupIdle ==
    /\ events = <<>>
    /\ grouped = <<>>
    /\ dedupOut = <<>>
    /\ dedupPc = "idle"
    /\ dedupAgain = <<>>

Pending == 0 - 1

LocIdle ==
    /\ locDoc = <<>>
    /\ locYear = 0
    /\ locMonth = 0
    /\ located = Pending

ParseIdle ==
    /\ doc = <<>>
    /\ nowYear = 0
    /\ nowMonth = 0
    /\ monthNo = 0
    /\ gPc = "idle"
    /\ rows = <<>>
    /\ rowsRead = 0
    /\ raw = <<>>
    /\ lastParse = <<>>
    /\ allEvents = <<>>
    /\ gResult = <<>>

MainIdle ==
    /\ flagSave = FALSE
    /\ flagCleanup = FALSE
    /\ mPc = "idle"
    /\ run = 0
    /\ evs = <<>>
    /\ db = <<>>
    /\ dbIndex = FALSE
    /\ exitCode = Pending
    /\ steps = <<>>
    /\ msgs = <<>>
    /\ calls = <<>>
    /\ runEvs = <<>>
    /\ dbAfterSave = <<>>

InitSim ==
    /\ simLeft \in SimStrings
    /\ simRight \in SimStrings
    /\ simResult = NoResult
    /\ simReverse = NoResult
    /\ DedupIdle
    /\ LocIdle
    /\ ParseIdle
    /\ MainIdle

ComputeSimilarity ==
    /\ simResult = NoResult
    /\ simResult' = name_similarity(simLeft, simRight)
    /\ simReverse' = name_similarity(simRight, simLeft)
    /\ UNCHANGED <<simLeft, simRight>>
    /\ UNCHANGED <<dedupVars, locVars, parseVars, mainVars>>

NextSim == ComputeSimilarity

SpecSim == InitSim /\ [][NextSim]_vars

(***************************************************************************)
(* Specification SpecDedup: deduplicate_events on every list of at most    *)
(* MaxEvents events drawn from DedupEvents, one loop iteration per step    *)
(***************************************************************************)
DateA == <<"2", "0", "2", "5", "-", "0", "6", "-", "0", "6">>
DateB == <<"2", "0", "2", "5", "-", "0", "6", "-", "0", "7">>
TimeA == <<"1", "8", ":", "0", "0">>
TimeB == <<"0", "0", ":", "0", "0">>

DedupKeys == {<<DateA, TimeA>>, <<DateA, TimeB>>, <<DateB, TimeA>>}

DedupNames ==
    { <<"a", "b", "c", "d">>,
      <<"b", "c", "d", "e">>,
      <<"a", "b", "c", "d", "e">>,
      <<"a", "b", "c", "d", "f">>,
      <<"FW_A", "B", "C", "D", " ", "IDSP">>,
      <<"a", "a", "a", "b", "a">>,
      <<"a", "b", "a", "a", "b">> }

DedupEvents ==
    {[date |-> k[1], name |-> n, start_time |-> k[2]] : k \in DedupKeys, n \in DedupNames}

InitDedup ==
    /\ events = <<>>
    /\ grouped = <<>>
    /\ dedupOut = <<>>
    /\ dedupPc = "loop"
    /\ dedupAgain = <<>>
    /\ SimIdle
    /\ LocIdle
    /\ ParseIdle
    /\ MainIdle

\* one iteration of  for event in events
DedupStep ==
    /\ dedupPc = "loop"
    /\ Len(events) < MaxEvents
    /\ \E event \in DedupEvents :
          /\ events' = Append(events, event)
          /\ grouped' = DedupAdd(grouped, event)
    /\ UNCHANGED <<dedupOut, dedupPc, dedupAgain>>
    /\ UNCHANGED <<simVars, locVars, parseVars, mainVars>>

\* the list is exhausted: return the flattened groups
DedupReturn ==
    /\ dedupPc = "loop"
    /\ dedupOut' = FlattenGroups(grouped)
    /\ dedupPc' = "done"
    /\ UNCHANGED <<events, grouped, dedupAgain>>
    /\ UNCHANGED <<simVars, locVars, parseVars, mainVars>>

\* the caller hands the returned list to deduplicate_events once more, as
\* get_events does with the lists parse_events returned
DedupAgain ==
    /\ dedupPc = "done"
    /\ dedupAgain' = deduplicate_events(dedupOut)
    /\ dedupPc' = "again"
    /\ UNCHANGED <<events, grouped, dedupOut>>
    /\ UNCHANGED <<simVars, locVars, parseVars, mainVars>>

NextDedup == DedupStep \/ DedupReturn \/ DedupAgain

SpecDedup == InitDedup /\ [][NextDedup]_vars

(***************************************************************************)
(* Specification SpecLocate: find_month_table on every document of at most *)
(* MaxDocItems headers and tables                                          *)
(***************************************************************************)
TextNode(s) == [type |-> "text", s |-> s]
CommentNode(s) == [type |-> "comment", s |-> s]
SpanNode(s) == [type |-> "span", s |-> s]
LinkNode(s) == [type |-> "a", s |-> s]
Header(nodes) == [kind |-> "header", nodes |-> nodes]
Table == [kind |-> "table"]

Jp2025 == <<"2", "0", "2", "5", "NEN">>
Jp12 == <<"1", "2", "GATSU">>
Jp11 == <<"1", "1", "GATSU">>
En2025 == <<"2", "0", "2", "5">>
EnDecember == <<"D", "e", "c", "e", "m", "b", "e", "r">>
EnJanuary2026 == <<"J", "a", "n", "u", "a", "r", "y", " ", "2", "0", "2", "6">>

HeaderJpText == Header(<<TextNode(<<" ">> \o Jp2025 \o Jp12)>>)
HeaderJpComment == Header(<<CommentNode(Jp2025 \o Jp12), TextNode(<<"D", "e", "c">>)>>)
HeaderJpSplit == Header(<<TextNode(Jp2025), SpanNode(Jp12)>>)
HeaderEnText == Header(<<TextNode(EnDecember \o <<" ">> \o En2025)>>)
HeaderEnComment == Header(<<CommentNode(EnDecember \o <<" ">> \o En2025), TextNode(<<"x">>)>>)
HeaderEnSplit == Header(<<TextNode(EnDecember \o <<" ">>), SpanNode(En2025)>>)
HeaderJpNovember == Header(<<TextNode(Jp2025 \o Jp11)>>)
HeaderBoth == Header(<<CommentNode(Jp2025 \o Jp12), TextNode(EnDecember \o <<" ">> \o En2025)>>)
HeaderEnJanuary == Header(<<TextNode(EnJanuary2026)>>)

HeaderPool ==
    {HeaderJpText, HeaderJpComment, HeaderJpSplit, HeaderEnText, HeaderEnComment,
     HeaderEnSplit, HeaderJpNovember}

Documents == UNION {[1..n -> HeaderPool \cup {Table}] : n \in 0..MaxDocItems}

InitLocate ==
    /\ locDoc \in Documents
    /\ locYear = 2025
    /\ locMonth \in {11, 12}
    /\ located = Pending
    /\ SimIdle
    /\ DedupIdle
    /\ ParseIdle
    /\ MainIdle

Locate ==
    /\ located = Pending
    /\ located' = find_month_table(locDoc, locYear, locMonth)
    /\ UNCHANGED <<locDoc, locYear, locMonth>>
    /\ UNCHANGED <<simVars, dedupVars, parseVars, mainVars>>

NextLocate == Locate

SpecLocate == InitLocate /\ [][NextLocate]_vars

(***************************************************************************)
(* Specification SpecParse: get_events, with both parse_events calls, on   *)
(* tables whose rows are read one per step from RowPool                    *)
(***************************************************************************)
RowDay6 == <<TextNode(<<"0", "6", " ", "(", "DO", ")">>)>>
RowDay6Short == <<TextNode(<<" ", "6">>)>>
RowDay12 == <<TextNode(<<"1", "2">>)>>
TextKaien1700 == TextNode(<<"KAI", "EN", " ", "1", "7", ":", "0", "0">>)
TextStartTime1700 ==
    TextNode(<<"S", "t", "a", "r", "t", " ", "t", "i", "m", "e", " ", "1", "7", ":", "0", "0">>)

RowLinkKaien == <<RowDay6, <<LinkNode(<<"a", "b", "c", "d">>), TextKaien1700>>>>
RowLinkStartTime ==
    <<RowDay6Short, <<LinkNode(<<" ", "a", "b", "c", "d", "e", " ">>), TextStartTime1700>>>>
RowPlainPrefix == <<RowDay6, <<TextNode(<<"YA", "KYU", " ", "a", "b", "c", "d">>)>>>>
RowOneCell == <<RowDay6>>
RowNoDay == <<<<TextNode(<<"(", "DO", ")">>)>>, <<LinkNode(<<"a", "b", "c", "d">>)>>>>
RowEmptyLink == <<RowDay6, <<LinkNode(<<" ", " ">>), TextKaien1700>>>>
RowPrefixOnly == <<RowDay6, <<TextNode(<<"SO", "NO", "TA">>), TextNode(<<" ">>)>>>>
RowEmptyCell == <<RowDay6, <<TextNode(<<" ">>)>>>>
RowThreeCells ==
    <<RowDay12,
      <<LinkNode(<<"b", "c", "d", "e">>),
        TextNode(<<"s", "t", "a", "r", "t", "s", "9", ":", "0", "FW_0">>)>>,
      <<TextNode(<<"x">>)>>>>

RowPool ==
    {RowLinkKaien, RowLinkStartTime, RowPlainPrefix, RowOneCell, RowNoDay, RowEmptyLink,
     RowPrefixOnly, RowEmptyCell, RowThreeCells}

DocAllMonths ==
    <<HeaderJpNovember, Table, HeaderBoth, Table, HeaderEnJanuary, Table>>
DocDecemberOnly == <<HeaderJpText, Table>>

ParseDocs == {DocAllMonths, DocDecemberOnly}

\* the (year, month) of the parse_events call in progress
Target ==
    IF monthNo = 1 THEN <<nowYear, nowMonth>> ELSE get_next_month(nowYear, nowMonth)

InitParse ==
    /\ doc \in ParseDocs
    /\ nowYear = 2025
    /\ nowMonth \in {11, 12}
    /\ monthNo = 1
    /\ gPc = "find"
    /\ rows = <<>>
    /\ rowsRead = 0
    /\ raw = <<>>
    /\ lastParse = <<>>
    /\ allEvents = <<>>
    /\ gResult = <<>>
    /\ SimIdle
    /\ DedupIdle
    /\ LocIdle
    /\ MainIdle

\* parse_events: no table for the month, return []
ParseNoTable ==
    /\ gPc = "find"
    /\ find_month_table(doc, Target[1], Target[2]) = 0
    /\ rows' = <<>>
    /\ raw' = <<>>
    /\ lastParse' = <<>>
    /\ gPc' = "returned"
    /\ UNCHANGED <<doc, nowYear, nowMonth, monthNo, rowsRead, allEvents, gResult>>
    /\ UNCHANGED <<simVars, dedupVars, locVars, mainVars>>

\* parse_events: the table is found, the row loop starts
ParseTableFound ==
    /\ gPc = "find"
    /\ find_month_table(doc, Target[1], Target[2]) # 0
    /\ rows' = <<>>
    /\ raw' = <<>>
    /\ gPc' = "rows"
    /\ UNCHANGED <<doc, nowYear, nowMonth, monthNo, rowsRead, lastParse, allEvents, gResult>>
    /\ UNCHANGED <<simVars, dedupVars, locVars, mainVars>>

\* parse_events: one iteration of the row loop
ParseRow ==
    /\ gPc = "rows"
    /\ rowsRead < MaxRows
    /\ \E row \in RowPool :
          /\ rows' = Append(rows, row)
          /\ raw' = raw \o RowEvents(row, Target[1], Target[2])
    /\ rowsRead' = rowsRead + 1
    /\ UNCHANGED <<doc, nowYear, nowMonth, monthNo, gPc, lastParse, allEvents, gResult>>
    /\ UNCHANGED <<simVars, dedupVars, locVars, mainVars>>

\* parse_events: the rows are exhausted, return deduplicate_events(events)
ParseReturn ==
    /\ gPc = "rows"
    /\ lastParse' = deduplicate_events(raw)
    /\ gPc' = "returned"
    /\ UNCHANGED <<doc, nowYear, nowMonth, monthNo, rows, rowsRead, raw, allEvents, gResult>>
    /\ UNCHANGED <<simVars, dedupVars, locVars, mainVars>>

\* get_events: take the returned list, go on to the next month or to the end
GetEventsExtend ==
    /\ gPc = "returned"
    /\ allEvents' = allEvents \o lastParse
    /\ IF monthNo = 1
       THEN monthNo' = 2 /\ gPc' = "find"
       ELSE monthNo' = monthNo /\ gPc' = "final"
    /\ UNCHANGED <<doc, nowYear, nowMonth, rows, rowsRead, raw, lastParse, gResult>>
    /\ UNCHANGED <<simVars, dedupVars, locVars, mainVars>>

\* get_events: return deduplicate_events(events)
GetEventsReturn ==
    /\ gPc = "final"
    /\ gResult' = deduplicate_events(allEvents)
    /\ gPc' = "done"
    /\ UNCHANGED <<doc, nowYear, nowMonth, monthNo, rows, rowsRead, raw, lastParse, allEvents>>
    /\ UNCHANGED <<simVars, dedupVars, locVars, mainVars>>

NextParse ==
    \/ ParseNoTable
    \/ ParseTableFound
    \/ ParseRow
    \/ ParseReturn
    \/ GetEventsExtend
    \/ GetEventsReturn

SpecParse == InitParse /\ [][NextParse]_vars

(***************************************************************************)
(* escape_sql_string, generate_upsert_sql and the statements as the store  *)
(* executes them                                                           *)
(***************************************************************************)
\* value.replace("'", "''")
RECURSIVE escape_sql_string(_)
escape_sql_string(value) ==
    IF value = <<>> THEN <<>>
    ELSE (IF Head(value) = "'" THEN <<"'", "'">> ELSE <<Head(value)>>)
         \o escape_sql_string(Tail(value))

\* one INSERT OR REPLACE statement per event, holding the three quoted
\* literals; the empty list gives the empty string
generate_upsert_sql(event_list) ==
    [i \in 1..Len(event_list) |->
        [date |-> escape_sql_string(event_list[i].date),
         name |-> escape_sql_string(event_list[i].name),
         start_time |-> escape_sql_string(event_list[i].start_time)]]

\* the value SQLite reads from the body of a quoted literal: '' is one quote
RECURSIVE SqlLiteralValue(_)
SqlLiteralValue(body) ==
    IF body = <<>> THEN <<>>
    ELSE IF Head(body) = "'" /\ Len(body) >= 2 /\ body[2] = "'"
    THEN <<"'">> \o SqlLiteralValue(Tail(Tail(body)))
    ELSE <<Head(body)>> \o SqlLiteralValue(Tail(body))

SameDateName(r1, r2) == r1.date = r2.date /\ r1.name = r2.name

\* INSERT OR REPLACE INTO events ... : with the unique index the rows of the
\* same (date, name) are deleted first; without it the row is just added
ExecInsertOrReplace(table, unique, stmt) ==
    LET row == [date |-> SqlLiteralValue(stmt.date),
                name |-> SqlLiteralValue(stmt.name),
                start_time |-> SqlLiteralValue(stmt.start_time)]
    IN IF unique
       THEN SelectSeq(table, LAMBDA r : ~SameDateName(r, row)) \o <<row>>
       ELSE Append(table, row)

RECURSIVE ExecStatements(_, _, _)
ExecStatements(table, unique, stmts) ==
    IF stmts = <<>> THEN table
    ELSE ExecStatements(ExecInsertOrReplace(table, unique, Head(stmts)), unique, Tail(stmts))

\* DELETE FROM events WHERE rowid NOT IN (SELECT MAX(rowid) ... GROUP BY date, name)
ExecRemoveDuplicates(table) ==
    LET Keep == {i \in 1..Len(table) :
                    \A j \in (i + 1)..Len(table) : ~SameDateName(table[i], table[j])}
        Pos(n) == CHOOSE i \in Keep : Cardinality({k \in Keep : k <= i}) = n
    IN [n \in 1..Cardinality(Keep) |-> table[Pos(n)]]

\* CREATE UNIQUE INDEX can succeed only on a table without duplicates
HasDuplicates(table) ==
    \E i, j \in 1..Len(table) : i < j /\ SameDateName(table[i], table[j])

(***************************************************************************)
(* Specification SpecMain: main() with both flags, every outcome of the    *)
(* fetch, the parse and the wrangler calls, run up to MaxRuns times on the *)
(* same database                                                           *)
(***************************************************************************)
NameAb == <<"a", "b">>
NameQuote == <<"o", "'", "b">>
NameAbcd == <<"a", "b", "c", "d">>
NameAbcde == <<"a", "b", "c", "d", "e">>

Ev(name, time) == [date |-> DateA, name |-> name, start_time |-> time]

\* lists get_events can return
MainEventLists ==
    { <<>>,
      <<Ev(NameAb, TimeA)>>,
      <<Ev(NameAb, TimeA), Ev(NameAb, TimeB)>>,
      <<Ev(NameQuote, TimeA)>> }

\* contents of the table when the first run starts, with and without the index
MainTables ==
    { <<>>,
      <<Ev(NameAb, TimeB)>>,
      <<Ev(NameAbcd, TimeA), Ev(NameAbcde, TimeA)>>,
      <<Ev(NameAb, TimeA), Ev(NameAb, TimeA)>> }

WranglerOutcomes == {"ok", "exec_error", "not_found"}

InitMain ==
    /\ flagSave \in BOOLEAN
    /\ flagCleanup \in BOOLEAN
    /\ mPc = "start"
    /\ run = 1
    /\ evs = <<>>
    /\ db \in MainTables
    /\ dbIndex \in {u \in BOOLEAN : u => ~HasDuplicates(db)}
    /\ exitCode = Pending
    /\ steps = <<>>
    /\ msgs = <<>>
    /\ calls = <<>>
    /\ runEvs = <<>>
    /\ dbAfterSave = <<>>
    /\ SimIdle
    /\ DedupIdle
    /\ LocIdle
    /\ ParseIdle

Called(name, outcome) == calls' = Append(calls, [call |-> name, outcome |-> outcome])

\* the run ends: sys.exit(code) or the return from main
ExitWith(code) ==
    /\ mPc' = "exited"
    /\ exitCode' = code

\* main with the cleanup-only test reduced to args.cleanup_fuzzy
MainStart_CleanupFirst ==
    /\ mPc = "start"
    /\ IF flagCleanup
       THEN mPc' = "cleanup_load" /\ steps' = Append(steps, "cleanup")
       ELSE mPc' = "fetch" /\ steps' = steps
    /\ UNCHANGED <<flagSave, flagCleanup, run, evs, db, dbIndex, exitCode, msgs, calls,
                   runEvs, dbAfterSave>>
    /\ UNCHANGED <<simVars, dedupVars, locVars, parseVars>>

\* main: if args.cleanup_fuzzy and not args.save
MainStart ==
    /\ mPc = "start"
    /\ IF flagCleanup /\ ~flagSave
       THEN mPc' = "cleanup_load" /\ steps' = Append(steps, "cleanup")
       ELSE mPc' = "fetch" /\ steps' = steps
    /\ UNCHANGED <<flagSave, flagCleanup, run, evs, db, dbIndex, exitCode, msgs, calls,
                   runEvs, dbAfterSave>>
    /\ UNCHANGED <<simVars, dedupVars, locVars, parseVars>>

\* get_events: fetch_schedule_html, a RequestException ends the run with 1
Fetch ==
    /\ mPc = "fetch"
    /\ steps' = Append(steps, "fetch")
    /\ \E outcome \in {"ok", "error"} :
          /\ Called("fetch", outcome)
          /\ IF outcome = "ok"
             THEN mPc' = "parse" /\ UNCHANGED <<exitCode, msgs>>
             ELSE ExitWith(1) /\ msgs' = Append(msgs, "error_fetching")
    /\ UNCHANGED <<flagSave, flagCleanup, run, evs, db, dbIndex, runEvs, dbAfterSave>>
    /\ UNCHANGED <<simVars, dedupVars, locVars, parseVars>>

\* get_events: the two parse_events calls and the final deduplicate_events;
\* any other exception ends the run with 1
Parse ==
    /\ mPc = "parse"
    /\ steps' = Append(steps, "parse")
    /\ \/ /\ Called("parse", "ok")
          /\ evs' \in MainEventLists
          /\ mPc' = "print"
          /\ UNCHANGED <<exitCode, msgs>>
       \/ /\ Called("parse", "error")
          /\ ExitWith(1)
          /\ msgs' = Append(msgs, "error_parsing")
          /\ UNCHANGED evs
    /\ UNCHANGED <<flagSave, flagCleanup, run, db, dbIndex, runEvs, dbAfterSave>>
    /\ UNCHANGED <<simVars, dedupVars, locVars, parseVars>>

\* main: print the JSON list and the total, then choose what follows
PrintEvents ==
    /\ mPc = "print"
    /\ steps' = Append(steps, "print")
    /\ IF flagSave THEN mPc' = "save" /\ UNCHANGED exitCode
       ELSE IF flagCleanup THEN mPc' = "cleanup" /\ UNCHANGED exitCode
       ELSE ExitWith(0)
    /\ UNCHANGED <<flagSave, flagCleanup, run, evs, db, dbIndex, msgs, calls, runEvs,
                   dbAfterSave>>
    /\ UNCHANGED <<simVars, dedupVars, locVars, parseVars>>

\* what main does once save_events_to_d1 has returned True
AfterSaveOk ==
    IF flagCleanup THEN mPc' = "cleanup" /\ UNCHANGED exitCode ELSE ExitWith(0)

\* save_events_to_d1: nothing to save returns True at once
SaveBegin ==
    /\ mPc = "save"
    /\ steps' = Append(steps, "save")
    /\ IF evs = <<>> THEN AfterSaveOk ELSE mPc' = "remove_duplicates" /\ UNCHANGED exitCode
    /\ UNCHANGED <<flagSave, flagCleanup, run, evs, db, dbIndex, msgs, calls, runEvs,
                   dbAfterSave>>
    /\ UNCHANGED <<simVars, dedupVars, locVars, parseVars>>

\* remove_duplicates_from_db: CalledProcessError is a warning; FileNotFoundError
\* is not caught before the except Exception clause of main
RemoveDuplicates ==
    /\ mPc = "remove_duplicates"
    /\ \E outcome \in WranglerOutcomes :
          /\ Called("remove_duplicates", outcome)
          /\ CASE outcome = "ok" ->
                    /\ db' = ExecRemoveDuplicates(db)
                    /\ mPc' = "create_index"
                    /\ UNCHANGED <<exitCode, msgs>>
               [] outcome = "exec_error" ->
                    /\ msgs' = Append(msgs, "warning_remove_duplicates")
                    /\ mPc' = "create_index"
                    /\ UNCHANGED <<exitCode, db>>
               [] outcome = "not_found" ->
                    /\ msgs' = Append(msgs, "error_parsing")
                    /\ ExitWith(1)
                    /\ UNCHANGED db
    /\ UNCHANGED <<flagSave, flagCleanup, run, evs, dbIndex, steps, runEvs, dbAfterSave>>
    /\ UNCHANGED <<simVars, dedupVars, locVars, parseVars>>

\* ensure_unique_index where a failed index creation makes the save fail
EnsureUniqueIndex_Fatal ==
    /\ mPc = "create_index"
    /\ \E outcome \in WranglerOutcomes :
          /\ outcome = "ok" => (dbIndex \/ ~HasDuplicates(db))
          /\ Called("create_index", outcome)
          /\ CASE outcome = "ok" ->
                    /\ dbIndex' = TRUE
                    /\ mPc' = "upsert"
                    /\ UNCHANGED <<exitCode, msgs>>
               [] outcome = "exec_error" ->
                    /\ msgs' = Append(msgs, "warning_create_index")
                    /\ ExitWith(1)
                    /\ UNCHANGED dbIndex
               [] outcome = "not_found" ->
                    /\ msgs' = Append(msgs, "error_parsing")
                    /\ ExitWith(1)
                    /\ UNCHANGED dbIndex
    /\ UNCHANGED <<flagSave, flagCleanup, run, evs, db, steps, runEvs, dbAfterSave>>
    /\ UNCHANGED <<simVars, dedupVars, locVars, parseVars>>

\* ensure_unique_index, after remove_duplicates_from_db: CREATE UNIQUE INDEX IF
\* NOT EXISTS; its result is not used by save_events_to_d1
EnsureUniqueIndex ==
    /\ mPc = "create_index"
    /\ \E outcome \in WranglerOutcomes :
          /\ outcome = "ok" => (dbIndex \/ ~HasDuplicates(db))
          /\ Called("create_index", outcome)
          /\ CASE outcome = "ok" ->
                    /\ dbIndex' = TRUE
                    /\ mPc' = "upsert"
                    /\ UNCHANGED <<exitCode, msgs>>
               [] outcome = "exec_error" ->
                    /\ msgs' = Append(msgs, "warning_create_index")
                    /\ mPc' = "upsert"
                    /\ UNCHANGED <<exitCode, dbIndex>>
               [] outcome = "not_found" ->
                    /\ msgs' = Append(msgs, "error_parsing")
                    /\ ExitWith(1)
                    /\ UNCHANGED dbIndex
    /\ UNCHANGED <<flagSave, flagCleanup, run, evs, db, steps, runEvs, dbAfterSave>>
    /\ UNCHANGED <<simVars, dedupVars, locVars, parseVars>>

\* save_events_to_d1: execute generate_upsert_sql(events)
Upsert ==
    /\ mPc = "upsert"
    /\ \E outcome \in WranglerOutcomes :
          /\ Called("upsert", outcome)
          /\ CASE outcome = "ok" ->
                    /\ db' = ExecStatements(db, dbIndex, generate_upsert_sql(evs))
                    /\ runEvs' = Append(runEvs, evs)
                    /\ dbAfterSave' = Append(dbAfterSave, db')
                    /\ AfterSaveOk
                    /\ UNCHANGED msgs
               [] outcome = "exec_error" ->
                    /\ msgs' = Append(msgs, "error_saving")
                    /\ ExitWith(1)
                    /\ UNCHANGED <<db, runEvs, dbAfterSave>>
               [] outcome = "not_found" ->
                    /\ msgs' = Append(msgs, "wrangler_not_found")
                    /\ ExitWith(1)
                    /\ UNCHANGED <<db, runEvs, dbAfterSave>>
    /\ UNCHANGED <<flagSave, flagCleanup, run, evs, dbIndex, steps>>
    /\ UNCHANGED <<simVars, dedupVars, locVars, parseVars>>

\* main: if args.cleanup_fuzzy, after the save
CleanupBegin ==
    /\ mPc = "cleanup"
    /\ steps' = Append(steps, "cleanup")
    /\ mPc' = "cleanup_load"
    /\ UNCHANGED <<flagSave, flagCleanup, run, evs, db, dbIndex, exitCode, msgs, calls,
                   runEvs, dbAfterSave>>
    /\ UNCHANGED <<simVars, dedupVars, locVars, parseVars>>

\* one_off_cleanup_fuzzy_duplicates_in_d1 up to the rewrite: load the rows,
\* deduplicate them, return True when nothing would be removed
CleanupLoad ==
    /\ mPc = "cleanup_load"
    /\ \E outcome \in WranglerOutcomes \cup {"bad_json"} :
          /\ Called("load", outcome)
          /\ CASE outcome = "ok" ->
                    /\ UNCHANGED msgs
                    /\ IF db = <<>> \/ Len(db) - Len(deduplicate_events(db)) <= 0
                       THEN ExitWith(0)
                       ELSE mPc' = "cleanup_rewrite" /\ UNCHANGED exitCode
               [] outcome = "exec_error" ->
                    msgs' = Append(msgs, "error_loading") /\ ExitWith(1)
               [] outcome = "bad_json" ->
                    msgs' = Append(msgs, "error_json") /\ ExitWith(1)
               [] outcome = "not_found" ->
                    msgs' = Append(msgs, "wrangler_not_found") /\ ExitWith(1)
    /\ UNCHANGED <<flagSave, flagCleanup, run, evs, db, dbIndex, steps, runEvs, dbAfterSave>>
    /\ UNCHANGED <<simVars, dedupVars, locVars, parseVars>>

\* one_off_cleanup_fuzzy_duplicates_in_d1: the transaction that empties the
\* table and inserts the deduplicated rows
CleanupRewrite ==
    /\ mPc = "cleanup_rewrite"
    /\ \E outcome \in WranglerOutcomes :
          /\ Called("rewrite", outcome)
          /\ CASE outcome = "ok" ->
                    /\ db' = ExecStatements(<<>>, dbIndex,
                                            generate_upsert_sql(deduplicate_events(db)))
                    /\ ExitWith(0)
                    /\ UNCHANGED msgs
               [] outcome = "exec_error" ->
                    msgs' = Append(msgs, "error_rewriting") /\ ExitWith(1) /\ UNCHANGED db
               [] outcome = "not_found" ->
                    msgs' = Append(msgs, "wrangler_not_found") /\ ExitWith(1) /\ UNCHANGED db
    /\ UNCHANGED <<flagSave, flagCleanup, run, evs, dbIndex, steps, runEvs, dbAfterSave>>
    /\ UNCHANGED <<simVars, dedupVars, locVars, parseVars>>

\* the program is started again with the same flags on the same database
RunAgain ==
    /\ mPc = "exited"
    /\ run < MaxRuns
    /\ run' = run + 1
    /\ mPc' = "start"
    /\ evs' = <<>>
    /\ exitCode' = Pending
    /\ steps' = <<>>
    /\ msgs' = <<>>
    /\ calls' = <<>>
    /\ UNCHANGED <<flagSave, flagCleanup, db, dbIndex, runEvs, dbAfterSave>>
    /\ UNCHANGED <<simVars, dedupVars, locVars, parseVars>>

NextMain ==
    \/ MainStart
    \/ Fetch
    \/ Parse
    \/ PrintEvents
    \/ SaveBegin
    \/ RemoveDuplicates
    \/ EnsureUniqueIndex
    \/ Upsert
    \/ CleanupBegin
    \/ CleanupLoad
    \/ CleanupRewrite
    \/ RunAgain

SpecMain == InitMain /\ [][NextMain]_vars

(***************************************************************************)
(* Properties                                                              *)
(***************************************************************************)
\* the score of the two strings, in the argument order the code uses, is at
\* least 0.80 / below 0.80
ScoreAtLeastThreshold(a, b) ==
    LET r == name_similarity(a, b) IN 5 * r[1] >= 4 * r[2]
ScoreBelowThreshold(a, b) ==
    LET r == name_similarity(a, b) IN 5 * r[1] < 4 * r[2]

NormLen(event) == Len(normalize_event_name(event.name))

CountOf(seq, x) == Cardinality({i \in 1..Len(seq) : seq[i] = x})

\* the event with the strictly longer normalized name, the first one on a tie
LongerNormalized(existing, incoming) ==
    IF NormLen(incoming) > NormLen(existing) THEN incoming ELSE existing

RECURSIVE NumSlots(_)
NumSlots(g) == IF g = <<>> THEN 0 ELSE Len(Head(g).cands) + NumSlots(Tail(g))

\* a loop iteration of deduplicate_events has just consumed events'[Len(events')]
StepTaken == Len(events') = Len(events) + 1
Incoming == events'[Len(events')]

\* group gi of key ki holds a representative that the incoming event matches
SlotMatches(ki, gi, incoming) ==
    /\ grouped[ki].key = EventKey(incoming)
    /\ ScoreAtLeastThreshold(grouped[ki].cands[gi].norm,
                             normalize_event_name(incoming.name))

Slots == {s \in (1..Len(grouped)) \X (1..MaxEvents) : s[2] <= Len(grouped[s[1]].cands)}

\* the two-event case: one output event, the one with the longer normalized name
TwoAloneMerge ==
    (/\ dedupPc = "done"
     /\ Len(events) = 2
     /\ EventKey(events[1]) = EventKey(events[2])
     /\ ScoreAtLeastThreshold(normalize_event_name(events[1].name),
                              normalize_event_name(events[2].name)))
    => dedupOut = <<LongerNormalized(events[1], events[2])>>

\* C1 as stated: whenever the incoming event has the key of an existing group
\* and scores >= 0.80 against that group's representative, no entry is added
\* and that group's slot afterwards holds the event with the strictly longer
\* normalized name (the existing one on a tie); two such events alone give one
\* output event, the longer one.
C1_AnyMatchingGroup ==
    /\ [][StepTaken =>
            \A s \in Slots :
               SlotMatches(s[1], s[2], Incoming) =>
                  /\ NumSlots(grouped') = NumSlots(grouped)
                  /\ grouped'[s[1]].cands[s[2]].event =
                        LongerNormalized(grouped[s[1]].cands[s[2]].event, Incoming)]_vars
    /\ []TwoAloneMerge

\* C1 amended: the merge goes to the FIRST group, in creation order, of the
\* incoming event's key whose representative scores >= 0.80 against it
\* (score taken as ratio(representative, incoming)): no entry is added, that
\* slot afterwards holds the event with the strictly longer normalized name
\* (the existing one on a tie) and every other slot, also one that would match
\* as well, is left as it was; two such events alone give one output event,
\* the longer one.
C1_FirstMatchingGroup ==
    /\ [][StepTaken =>
            \A s \in Slots :
               (/\ SlotMatches(s[1], s[2], Incoming)
                /\ \A g \in 1..(s[2] - 1) : ~SlotMatches(s[1], g, Incoming))
               =>
                  /\ NumSlots(grouped') = NumSlots(grouped)
                  /\ grouped'[s[1]].cands[s[2]].event =
                        LongerNormalized(grouped[s[1]].cands[s[2]].event, Incoming)
                  /\ \A u \in Slots :
                        u # s => grouped'[u[1]].cands[u[2]] = grouped[u[1]].cands[u[2]]]_vars
    /\ []TwoAloneMerge

\* a merge has replaced the representative by a longer incoming event while a
\* second group of the same key was present
C1_Witness ==
    /\ dedupPc = "done"
    /\ Len(events) = 3
    /\ Len(dedupOut) = 2
    /\ EventKey(events[1]) = EventKey(events[3])
    /\ EventKey(events[2]) = EventKey(events[3])
    /\ dedupOut[1] = events[3]
    /\ NormLen(events[3]) > NormLen(events[1])

\* C2: when any two input events of the same (date, start_time) score below
\* 0.80 in both argument orders, every input event is in the output exactly
\* once; and events of different keys are never merged: an event that is alone
\* in its key is in the output exactly once, whatever the names.
PairwiseBelowThreshold ==
    \A i, j \in 1..Len(events) :
       (i < j /\ EventKey(events[i]) = EventKey(events[j])) =>
          /\ ScoreBelowThreshold(normalize_event_name(events[i].name),
                                 normalize_event_name(events[j].name))
          /\ ScoreBelowThreshold(normalize_event_name(events[j].name),
                                 normalize_event_name(events[i].name))

AloneInKey(i) ==
    \A j \in 1..Len(events) : j # i => EventKey(events[j]) # EventKey(events[i])

C2_NoFalseMerge ==
    dedupPc = "done" =>
       /\ PairwiseBelowThreshold =>
             /\ Len(dedupOut) = Len(events)
             /\ \A i \in 1..Len(events) : CountOf(dedupOut, events[i]) = 1
       /\ \A i \in 1..Len(events) :
             AloneInKey(i) => CountOf(dedupOut, events[i]) = 1

\* three events were kept apart: two of one key with dissimilar names and one
\* of another key with the same name as the first
C2_Witness ==
    /\ dedupPc = "done"
    /\ Len(events) = 3
    /\ Len(dedupOut) = 3
    /\ PairwiseBelowThreshold
    /\ EventKey(events[1]) = EventKey(events[2])
    /\ EventKey(events[1]) # EventKey(events[3])
    /\ events[1].name = events[3].name

\* the raw candidates of the parse_events call in progress: one event per
\* accepted row, in the document order of the rows
Candidates ==
    Concat([i \in 1..Len(rows) |-> RowEvents(rows[i], Target[1], Target[2])])

\* C3 as stated: the per-month parse returns the raw candidates, not
\* deduplicated: exactly one event per accepted table row, in the document
\* order of the rows, for every sequence of rows.
C3_RawCandidates ==
    gPc = "returned" => lastParse = Candidates

DateTimeOf(event) == <<event.date, event.start_time>>

DistinctDateTimes(seq) ==
    \A i, j \in 1..Len(seq) : i # j => DateTimeOf(seq[i]) # DateTimeOf(seq[j])

\* C3 amended: the per-month parse returns the raw candidates AFTER fuzzy
\* deduplication.  Every returned event is the event of an accepted row, no
\* more events than accepted rows are returned and every (date, start time)
\* of an accepted row is represented; there is exactly one event per accepted
\* row, in document order, when no two accepted rows share date and start
\* time; two accepted rows with the same date and start time whose normalized
\* names score >= 0.80 give, on their own, a single event.
C3_DeduplicatedCandidates ==
    gPc = "returned" =>
       /\ \A i \in 1..Len(lastParse) : \E j \in 1..Len(Candidates) : lastParse[i] = Candidates[j]
       /\ Len(lastParse) <= Len(Candidates)
       /\ \A j \in 1..Len(Candidates) :
             \E i \in 1..Len(lastParse) : DateTimeOf(lastParse[i]) = DateTimeOf(Candidates[j])
       /\ DistinctDateTimes(Candidates) => lastParse = Candidates
       /\ (/\ Len(Candidates) = 2
           /\ DateTimeOf(Candidates[1]) = DateTimeOf(Candidates[2])
           /\ ScoreAtLeastThreshold(normalize_event_name(Candidates[1].name),
                                    normalize_event_name(Candidates[2].name)))
          => Len(lastParse) = 1

\* two accepted rows of the same date and start time were merged, and a third
\* row was skipped
C3_Witness ==
    /\ gPc = "returned"
    /\ Len(rows) = 3
    /\ Len(Candidates) = 2
    /\ Len(lastParse) = 1
    /\ lastParse[1] = Candidates[2]

\* the shape of the three fields; a digit is what the class \d accepts
IsDateForm(d) ==
    /\ Len(d) = 10
    /\ d[5] = "-" /\ d[8] = "-"
    /\ \A i \in {1, 2, 3, 4, 6, 7, 9, 10} : IsDigit(d[i])

IsTimeForm(t) ==
    /\ Len(t) = 5
    /\ t[3] = ":"
    /\ \A i \in {1, 2, 4, 5} : IsDigit(t[i])

EventWellFormed(event) ==
    /\ IsDateForm(event.date)
    /\ IsTimeForm(event.start_time)
    /\ event.name # <<>>

AllWellFormed(seq) == \A i \in 1..Len(seq) : EventWellFormed(seq[i])

\* the first link of the event cell has no visible text
HasEmptyLink(row) ==
    /\ Len(row) >= 2
    /\ \E i \in 1..Len(row[2]) :
          /\ row[2][i].type = "a"
          /\ \A k \in 1..(i - 1) : row[2][k].type # "a"
          /\ \A k \in 1..Len(row[2][i].s) : IsSpace(row[2][i].s[k])

NoColon(cell) == \A i \in 1..Len(cell) : \A k \in 1..Len(cell[i].s) : cell[i].s[k] # ":"

RowStep == Len(rows') = Len(rows) + 1

\* C4: every event of the parse pipeline (the candidates, what parse_events
\* returns, what get_events collects and returns) has a date of the form
\* YYYY-MM-DD, a start_time of the form HH:MM and a non-empty name; a row
\* whose extracted name is empty (an empty link text included) adds no event;
\* a cell without any time text gives start_time "00:00".
C4_EventInvariants ==
    /\ [](/\ AllWellFormed(raw)
          /\ AllWellFormed(lastParse)
          /\ AllWellFormed(allEvents)
          /\ AllWellFormed(gResult))
    /\ [][RowStep =>
            LET row == rows'[Len(rows')]
            IN /\ HasEmptyLink(row) => raw' = raw
               /\ (Len(row) >= 2 /\ extract_event_name(row[2]) = <<>>) => raw' = raw
               /\ (raw' # raw /\ NoColon(row[2])) =>
                     raw'[Len(raw')].start_time = <<"0", "0", ":", "0", "0">>]_vars

\* get_events returned an event whose one-digit hour was padded, after a row
\* with an empty link text was dropped
C4_Witness ==
    /\ gPc = "done"
    /\ Len(rows) = 2
    /\ HasEmptyLink(rows[1])
    /\ Len(gResult) = 1
    /\ gResult[1].start_time = <<"0", "9", ":", "0", "FW_0">>
    /\ gResult[1].date[9] = "1"

\* the position of the nearest table after the first header of Good that has
\* a table after it, 0 when there is none
TableAfterFirst(document, Good) ==
    LET WithTable == {i \in Good : \E j \in (i + 1)..Len(document) : document[j].kind = "table"}
    IN IF WithTable = {} THEN 0
       ELSE LET h == CHOOSE i \in WithTable : \A k \in WithTable : i <= k
            IN CHOOSE j \in (h + 1)..Len(document) :
                  /\ document[j].kind = "table"
                  /\ \A k \in (h + 1)..(j - 1) : document[k].kind # "table"

InMarkupOrText(pattern, header) ==
    \/ IsSubstring(pattern, HeaderHtml(header))
    \/ IsSubstring(pattern, get_text(header.nodes))

HeadersOf(document) == {i \in 1..Len(document) : document[i].kind = "header"}

\* C5 as stated: the result is the nearest following table of the first header
\* that contains the Japanese or the English form in its raw markup or in its
\* visible text and has a table after it; None exactly when there is no such
\* header.
C5_EitherFormInMarkupOrText ==
    located # Pending =>
       located = TableAfterFirst(locDoc,
                    {i \in HeadersOf(locDoc) :
                        \/ InMarkupOrText(japanese_pattern(locYear, locMonth), locDoc[i])
                        \/ InMarkupOrText(english_pattern(locYear, locMonth), locDoc[i])})

\* C5 amended: as stated, except that the English form counts only in the
\* header's visible text (the raw markup is searched for the Japanese form
\* alone).
C5_EnglishFormInTextOnly ==
    located # Pending =>
       located = TableAfterFirst(locDoc,
                    {i \in HeadersOf(locDoc) :
                        \/ InMarkupOrText(japanese_pattern(locYear, locMonth), locDoc[i])
                        \/ IsSubstring(english_pattern(locYear, locMonth),
                                       get_text(locDoc[i].nodes))})

\* the header matches through a comment only and the table returned lies
\* behind a second header, which does not match
C5_Witness ==
    /\ located = 3
    /\ Len(locDoc) = 3
    /\ locDoc[1] = HeaderJpComment
    /\ locDoc[2] = HeaderEnSplit
    /\ locMonth = 12

SameRows(t1, t2) ==
    /\ Len(t1) = Len(t2)
    /\ \A i \in 1..Len(t1) : CountOf(t1, t1[i]) = CountOf(t2, t1[i])

OneRowPerDateName(table) ==
    \A i, j \in 1..Len(table) :
       (table[i].date = table[j].date /\ table[i].name = table[j].name) => i = j

\* C7: running the save twice on the same events leaves the table with the
\* same rows as running it once, at most one row per (date, name), also when
\* the index creation before the upsert only produced a warning.
C7_SaveTwiceSameRows ==
    (/\ ~flagCleanup
     /\ Len(dbAfterSave) >= 2
     /\ runEvs[1] = runEvs[2])
    => /\ SameRows(dbAfterSave[2], dbAfterSave[1])
       /\ OneRowPerDateName(dbAfterSave[2])

HasCall(name, outcome) ==
    \E i \in 1..Len(calls) : calls[i].call = name /\ calls[i].outcome = outcome

\* the failures the run cannot survive: the fetch, the parse, the upsert, the
\* cleanup calls, and a missing tool at any store call
FatalCall(c) ==
    \/ c.call \in {"fetch", "parse"} /\ c.outcome = "error"
    \/ c.call = "upsert" /\ c.outcome # "ok"
    \/ c.call \in {"load", "rewrite"} /\ c.outcome # "ok"
    \/ c.call \in {"remove_duplicates", "create_index"} /\ c.outcome = "not_found"

\* C8: for every flag combination and every outcome of the external calls the
\* exit code is 1 exactly when the fetch, the parse, or a requested save or
\* cleanup has failed, and 0 otherwise; an execution error of the duplicate
\* removal or of the index creation is a warning only: it neither makes the
\* exit code 1 nor keeps the upsert from being attempted.
C8_ExitCodes ==
    mPc = "exited" =>
       /\ exitCode = (IF \E i \in 1..Len(calls) : FatalCall(calls[i]) THEN 1 ELSE 0)
       /\ (/\ \/ HasCall("remove_duplicates", "exec_error")
              \/ HasCall("create_index", "exec_error")
           /\ ~HasCall("remove_duplicates", "not_found")
           /\ ~HasCall("create_index", "not_found"))
          => \E i \in 1..Len(calls) : calls[i].call = "upsert"

\* both store preparations failed with an execution error, the upsert went
\* through and the run ended with 0
C8_Witness ==
    /\ mPc = "exited"
    /\ exitCode = 0
    /\ HasCall("remove_duplicates", "exec_error")
    /\ HasCall("create_index", "exec_error")
    /\ HasCall("upsert", "ok")

FullOrder == <<"fetch", "parse", "print", "save", "cleanup">>

IsPrefix(p, q) == Len(p) <= Len(q) /\ \A i \in 1..Len(p) : p[i] = q[i]

\* C9: with --cleanup-fuzzy and without --save the run does the cleanup only
\* (no fetch, no parse, no print, no save); with both flags the stages come in
\* the order fetch, parse, print, save, cleanup, all of them when none fails,
\* and the cleanup is not started when the save has failed.
C9_StageOrder ==
    mPc = "exited" =>
       /\ (flagCleanup /\ ~flagSave) =>
             /\ steps = <<"cleanup">>
             /\ \A i \in 1..Len(calls) : calls[i].call \in {"load", "rewrite"}
       /\ (flagCleanup /\ flagSave) =>
             /\ IsPrefix(steps, FullOrder)
             /\ exitCode = 0 => steps = FullOrder
             /\ (\E i \in 1..Len(steps) : steps[i] = "cleanup") =>
                   (evs = <<>> \/ HasCall("upsert", "ok"))
             /\ (\E i \in 1..Len(calls) : calls[i].call = "upsert" /\ calls[i].outcome # "ok")
                   => ~\E i \in 1..Len(calls) : calls[i].call \in {"load", "rewrite"}

\* a run with both flags went through all five stages and rewrote the table
C9_Witness ==
    /\ mPc = "exited"
    /\ flagCleanup /\ flagSave
    /\ steps = FullOrder
    /\ HasCall("upsert", "ok")
    /\ HasCall("rewrite", "ok")

\* C10: a missing tool binary, at whichever store call of a save or cleanup
\* run it first occurs (the first call of the save path included), ends the
\* run with code 1 and the tool-not-found message, and is never reported as a
\* fetch error, a parse error or an execution-error warning.
C10_ToolNotFoundReported ==
    (mPc = "exited" /\ \E i \in 1..Len(calls) : calls[i].outcome = "not_found")
    => /\ exitCode = 1
       /\ msgs # <<>>
       /\ msgs[Len(msgs)] = "wrangler_not_found"
       /\ \A i \in 1..Len(msgs) : msgs[i] \notin {"error_parsing", "error_fetching"}

NormOf(event) == normalize_event_name(event.name)

\* two events of the list have the same (date, start_time) and the earlier
\* one's normalized name scores >= 0.80 against the later one's
EarlierMatchesLater(list) ==
    \E i, j \in 1..Len(list) :
       /\ i < j
       /\ EventKey(list[i]) = EventKey(list[j])
       /\ ScoreAtLeastThreshold(NormOf(list[i]), NormOf(list[j]))

\* no event of the list scores >= 0.80 against an earlier event of its key
\* whose normalized name is strictly shorter: no merge replaces a
\* representative
NoLaterLongerMatch(list) ==
    \A i, j \in 1..Len(list) :
       (/\ i < j
        /\ EventKey(list[i]) = EventKey(list[j])
        /\ ScoreAtLeastThreshold(NormOf(list[i]), NormOf(list[j])))
       => NormLen(list[j]) <= NormLen(list[i])

\* C11 as stated: deduplicate_events applied to its own output returns the
\* same events for every input list, and the output never contains two events
\* of the same (date, start_time) whose normalized names is_same_event_name
\* would judge the same (taken in the argument order of the code: the earlier
\* event's name first).
C11_Idempotent ==
    dedupPc = "again" =>
       /\ dedupAgain = dedupOut
       /\ ~EarlierMatchesLater(dedupOut)

\* C11 amended: the second application returns the same list exactly when the
\* first output holds no two events of one (date, start_time) of which the
\* earlier scores >= 0.80 against the later; that is so for every input in
\* which no event scores >= 0.80 against an earlier event of its key with a
\* strictly shorter normalized name, and not for every input.  In every case
\* the second application only drops events: what it returns is no longer
\* than the first output and holds only events of it.
C11_IdempotentWithoutReplacement ==
    dedupPc = "again" =>
       /\ (dedupAgain = dedupOut) <=> ~EarlierMatchesLater(dedupOut)
       /\ NoLaterLongerMatch(events) => dedupAgain = dedupOut
       /\ Len(dedupAgain) <= Len(dedupOut)
       /\ \A i \in 1..Len(dedupAgain) : CountOf(dedupOut, dedupAgain[i]) >= 1

\* the first pass merged one of three events into a representative it kept,
\* left two groups of one key, and the second pass returned the same two
C11_Witness ==
    /\ dedupPc = "again"
    /\ Len(events) = 3
    /\ EventKey(events[1]) = EventKey(events[2])
    /\ EventKey(events[1]) = EventKey(events[3])
    /\ NoLaterLongerMatch(events)
    /\ Len(dedupOut) = 2
    /\ dedupAgain = dedupOut

\* C6 as stated: the score is symmetric, name_similarity(a, b) =
\* name_similarity(b, a) for all strings, so is_same_event_name gives the same
\* verdict in either argument order.
C6_Symmetric ==
    simResult # NoResult =>
       /\ simResult = simReverse
       /\ is_same_event_name(simLeft, simRight) = is_same_event_name(simRight, simLeft)

NoCommonChar(a, b) == \A i \in 1..Len(a), j \in 1..Len(b) : a[i] # b[j]

\* C6 amended: for names below the 200 characters at which autojunk sets in,
\* the score is symmetric when one string is a contiguous substring of the
\* other (equal strings and the empty string included) or when the two
\* strings share no character; in general it depends on the argument order.
C6_SymmetricOnSubstrings ==
    (/\ simResult # NoResult
     /\ \/ IsSubstring(simLeft, simRight)
        \/ IsSubstring(simRight, simLeft)
        \/ NoCommonChar(simLeft, simRight))
    => simResult = simReverse

\* the score was computed for a proper substring of two or more characters
C6_Witness ==
    /\ simResult # NoResult
    /\ Len(simLeft) >= 2
    /\ Len(simRight) > Len(simLeft)
    /\ IsSubstring(simLeft, simRight)
    /\ simResult[1] = 2 * Len(simLeft)

====
